---- MODULE Spec2Model ----
(***************************************************************************)
(* Model of dso-phone-number-masker (src/main.py): one invocation of       *)
(* main() and process_file(), with the phone-number finder, the masking    *)
(* and replacement transforms and Python's str.replace modelled on         *)
(* sequences of one-character strings.                                     *)
(***************************************************************************)
EXTENDS Integers, Sequences, FiniteSets, TLC

VARIABLES args, env, files, pc, encoding, content, phone_numbers, todo,
          exit_code, opened, snapshot, runs, last_call

vars == <<args, env, files, pc, encoding, content, phone_numbers, todo,
          exit_code, opened, snapshot, runs, last_call>>

\* ------------------------------------------------------------------ bounds
\* Longest input text, counted in tokens of Tokens.
MaxTokens == 4
\* Number of times the tool is run in a row on its own output.
MaxRuns == 2

\* ------------------------------------------------------------- characters
\* A text is a sequence of one-character strings.
Chars(s) == [i \in 1..Len(s) |-> SubSeq(s, i, i)]

\* Characters matched by \d in the two regular expressions.
Digits == {"0", "1", "2", "3", "4", "5", "6", "7", "8", "9"}

\* Characters matched by the class [-.\s].
Seps == {"-", ".", " ", "\t", "\n"}

\* str.isdigit(): the decimal digits and, beyond \d, digit-like characters
\* such as a superscript two (written "^2" here).
IsDigit(c) == c \in Digits \cup {"^2"}

\* ----------------------------------------------------------- the patterns
\* True iff text[i..i+k-1] exists and consists of \d characters.
DigitsAt(text, i, k) ==
    /\ i + k - 1 <= Len(text)
    /\ \A j \in i..(i + k - 1) : text[j] \in Digits

\* Length consumed by [-.\s]? at position i.  The quantifier is greedy; the
\* alternative of skipping a separator that is present is followed by \d,
\* which cannot match a separator, so backtracking never succeeds.
SepLen(text, i) == IF i <= Len(text) /\ text[i] \in Seps THEN 1 ELSE 0

\* (\d{3})[-.\s]?(\d{3})[-.\s]?(\d{4}) tried at position i: the start
\* positions of the three groups and the position after the match, or <<>>.
Groups(text, i) ==
    LET p2 == i + 3 + SepLen(text, i + 3)
        p3 == p2 + 3 + SepLen(text, p2 + 3)
    IN  IF DigitsAt(text, i, 3) /\ DigitsAt(text, p2, 3) /\ DigitsAt(text, p3, 4)
        THEN <<i, p2, p3, p3 + 4>>
        ELSE <<>>

\* re.match of the extraction pattern at the start of s: the three groups.
re_match(s) ==
    LET g == Groups(s, 1)
    IN  IF g = <<>> THEN <<>>
        ELSE <<SubSeq(s, g[1], g[1] + 2), SubSeq(s, g[2], g[2] + 2),
               SubSeq(s, g[3], g[3] + 3)>>

\* The detection pattern without its trailing (?!\d).
MatchAt_NoLookahead(text, i) ==
    LET g == Groups(text, i)
    IN  IF g # <<>> /\ (i = 1 \/ text[i - 1] \notin Digits)
        THEN g[4] - i
        ELSE 0

\* The detection pattern tried at position i: length of the match, 0 if none.
MatchAt(text, i) ==
    LET g == Groups(text, i)
    IN  IF /\ g # <<>>
           /\ (i = 1 \/ text[i - 1] \notin Digits)
           /\ (g[4] > Len(text) \/ text[g[4]] \notin Digits)
        THEN g[4] - i
        ELSE 0

\* re.findall: leftmost non-overlapping matches, as <<start, length>> pairs.
RECURSIVE FindSpans(_, _)
FindSpans(text, i) ==
    IF i > Len(text) THEN {}
    ELSE LET l == MatchAt(text, i)
         IN  IF l > 0 THEN {<<i, l>>} \cup FindSpans(text, i + l)
             ELSE FindSpans(text, i + 1)

\* list(set(re.findall(pattern, text))): the distinct matched strings.
find_phone_numbers(text) ==
    {SubSeq(text, s[1], s[1] + s[2] - 1) : s \in FindSpans(text, 1)}

\* ---------------------------------------------------------- the transforms
\* A masking that overwrites the separators as well.
mask_everything(phone_number, mask_char) ==
    [j \in 1..Len(phone_number) |-> mask_char[1]]

\* "".join([mask_char if char.isdigit() else char for char in phone_number])
RECURSIVE mask_phone_number(_, _)
mask_phone_number(phone_number, mask_char) ==
    IF phone_number = <<>> THEN <<>>
    ELSE (IF IsDigit(Head(phone_number)) THEN mask_char
          ELSE <<Head(phone_number)>>)
         \o mask_phone_number(Tail(phone_number), mask_char)

\* str.replace(old, new) for a non-empty old: every non-overlapping
\* occurrence, scanning from the left.
RECURSIVE str_replace(_, _, _)
str_replace(s, old, new) ==
    IF Len(s) < Len(old) THEN s
    ELSE IF SubSeq(s, 1, Len(old)) = old
         THEN new \o str_replace(SubSeq(s, Len(old) + 1, Len(s)), old, new)
         ELSE <<Head(s)>> \o str_replace(Tail(s), old, new)

\* Outcome of fake.phone_number() that stands for a raised exception.
Raise == <<"!raise">>

\* Values drawn from fake.phone_number(): shapes of the en_US provider.
FakeNumbers == {Chars("202-555-0143"), Chars("(202)555-0143"),
                Chars("001-202-555-0143"), Chars("2025550143x12")}

FakeOutcomes == FakeNumbers \cup {Raise}

\* A replacement that reassembles with the generated area code.
replace_keeping_new_area(phone_number, keep_area_code, d1, d2) ==
    LET match == re_match(phone_number)
        new_match == re_match(d1)
    IN  IF keep_area_code /\ match # <<>>
        THEN IF d1 = Raise THEN phone_number
             ELSE IF new_match # <<>>
                  THEN new_match[1] \o <<"-">> \o new_match[2] \o <<"-">> \o new_match[3]
                  ELSE IF d2 = Raise THEN phone_number ELSE d2
        ELSE IF d1 = Raise THEN phone_number ELSE d1

\* replace_phone_number, d1 and d2 being the outcomes of the first and the
\* second call of fake.phone_number().
replace_phone_number(phone_number, keep_area_code, d1, d2) ==
    LET match == re_match(phone_number)
        new_match == re_match(d1)
    IN  IF keep_area_code /\ match # <<>>
        THEN IF d1 = Raise THEN phone_number
             ELSE IF new_match # <<>>
                  THEN match[1] \o <<"-">> \o new_match[2] \o <<"-">> \o new_match[3]
                  ELSE IF d2 = Raise THEN phone_number ELSE d2
        ELSE IF d1 = Raise THEN phone_number ELSE d1

\* The calls of fake.phone_number() that replace_phone_number consumes.
draws_used(phone_number, keep_area_code, d1, d2) ==
    IF keep_area_code /\ re_match(phone_number) # <<>>
       /\ d1 # Raise /\ re_match(d1) = <<>>
    THEN <<d1, d2>>
    ELSE <<d1>>

\* ------------------------------------------------------------------ inputs
Tokens == {Chars("1234567890"), Chars(" "), Chars("456 789-0123"),
           Chars("111.222-3"), Chars("9"), Chars("X")}

RECURSIVE TokenTexts(_)
TokenTexts(n) ==
    IF n = 0 THEN {<<>>}
    ELSE LET S == TokenTexts(n - 1)
         IN  S \cup {s \o t : s \in S, t \in Tokens}

SmallTexts == {Chars("Call 555-123-4567 or 555.123.4567 again"),
               Chars("Phone: 800-555-0199."),
               Chars("01234567890123"),
               <<"^2", " ">> \o Chars("5551234567")}

NoFile == <<"!nofile">>
None == "None"
Paths == {"in", "out"}

OkEnv == [detect |-> "ok", read_ok |-> TRUE, write |-> "ok"]

Envs == [detect : {"ok", "none"}, read_ok : BOOLEAN,
         write : {"ok", "open_fails", "write_fails"}]

NoCall == [fn |-> "none", arg |-> <<>>, keep |-> FALSE, draws |-> <<>>,
           result |-> <<>>]

\* Mask mode on token texts, nothing failing.
InitMask ==
    /\ args \in [input_file : {"in"}, output_file : {None},
                 mask_char : {Chars("X"), Chars("-")},
                 replace : {FALSE}, keep_area_code : {FALSE}]
    /\ env = OkEnv
    /\ \E t \in TokenTexts(MaxTokens) : files = [p \in Paths |-> IF p = "in" THEN t ELSE NoFile]

\* Replace mode on the small texts, nothing failing.
InitReplace ==
    /\ args \in [input_file : {"in"}, output_file : {None, "out"},
                 mask_char : {Chars("X")},
                 replace : {TRUE}, keep_area_code : BOOLEAN]
    /\ env = OkEnv
    /\ \E t \in SmallTexts : files = [p \in Paths |-> IF p = "in" THEN t ELSE NoFile]

\* Any mask argument, missing files and failing I/O on the small texts.
InitErrors ==
    /\ args \in [input_file : {"in"}, output_file : {None, "out"},
                 mask_char : {Chars(""), Chars("*"), Chars("7"), Chars("XY")},
                 replace : {FALSE}, keep_area_code : BOOLEAN]
    /\ env \in Envs
    /\ \E t \in SmallTexts \cup {NoFile}, o \in {NoFile, Chars("old")} :
          files = [p \in Paths |-> IF p = "in" THEN t ELSE o]

Init ==
    /\ (InitMask \/ InitReplace \/ InitErrors)
    /\ pc = "main"
    /\ encoding = None
    /\ content = <<>>
    /\ phone_numbers = {}
    /\ todo = {}
    /\ exit_code = -1
    /\ opened = {}
    /\ snapshot = files
    /\ runs = 1
    /\ last_call = NoCall

\* ----------------------------------------------------------------- actions
\* sys.exit(1)
Exit1 == pc' = "exit" /\ exit_code' = 1

\* main() without the length check on the mask character.
Main_NoValidation ==
    /\ pc = "main"
    /\ pc' = "exists"
    /\ UNCHANGED <<args, env, files, encoding, content, phone_numbers, todo,
                   exit_code, opened, snapshot, runs, last_call>>

\* main(): the mask character is validated before process_file is called.
\* Every failure inside process_file is handled there and ends in sys.exit(1)
\* (SystemExit is not an Exception), so the except branch of main adds no step.
Main ==
    /\ pc = "main"
    /\ IF Len(args.mask_char) # 1
       THEN Exit1
       ELSE pc' = "exists" /\ UNCHANGED exit_code
    /\ UNCHANGED <<args, env, files, encoding, content, phone_numbers, todo,
                   opened, snapshot, runs, last_call>>

\* process_file: os.path.exists(input_file)
CheckExists ==
    /\ pc = "exists"
    /\ IF files[args.input_file] = NoFile
       THEN Exit1
       ELSE pc' = "detect" /\ UNCHANGED exit_code
    /\ UNCHANGED <<args, env, files, encoding, content, phone_numbers, todo,
                   opened, snapshot, runs, last_call>>

\* detect_encoding and the fallback to utf-8
DetectEncoding ==
    /\ pc = "detect"
    /\ opened' = opened \cup {<<args.input_file, "rb">>}
    /\ encoding' = IF env.detect = "ok" THEN "detected" ELSE "utf-8"
    /\ pc' = "read"
    /\ UNCHANGED <<args, env, files, content, phone_numbers, todo, exit_code,
                   snapshot, runs, last_call>>

\* process_file: open(input_file, "r") and f.read()
ReadInput ==
    /\ pc = "read"
    /\ opened' = opened \cup {<<args.input_file, "r">>}
    /\ IF env.read_ok
       THEN /\ content' = files[args.input_file]
            /\ pc' = "find"
            /\ UNCHANGED exit_code
       ELSE Exit1 /\ UNCHANGED content
    /\ UNCHANGED <<args, env, files, encoding, phone_numbers, todo, snapshot,
                   runs, last_call>>

\* process_file: phone_numbers = find_phone_numbers(content)
FindNumbers ==
    /\ pc = "find"
    /\ phone_numbers' = find_phone_numbers(content)
    /\ todo' = phone_numbers'
    /\ pc' = "loop"
    /\ UNCHANGED <<args, env, files, encoding, content, exit_code, opened,
                   snapshot, runs, last_call>>

\* One iteration of the for loop in mask mode.  The list comes from a set,
\* so the next element is any element not yet visited.
LoopMask ==
    /\ pc = "loop"
    /\ ~args.replace
    /\ \E phone_number \in todo :
          LET masked_number == mask_phone_number(phone_number, args.mask_char)
          IN  /\ content' = str_replace(content, phone_number, masked_number)
              /\ todo' = todo \ {phone_number}
              /\ last_call' = [fn |-> "mask", arg |-> phone_number,
                               keep |-> FALSE, draws |-> <<>>,
                               result |-> masked_number]
    /\ UNCHANGED <<args, env, files, pc, encoding, phone_numbers, exit_code,
                   opened, snapshot, runs>>

\* One iteration of the for loop in replace mode.
LoopReplace ==
    /\ pc = "loop"
    /\ args.replace
    /\ \E phone_number \in todo, d1 \in FakeOutcomes, d2 \in FakeOutcomes :
          LET replacement == replace_phone_number(phone_number,
                                 args.keep_area_code, d1, d2)
          IN  /\ content' = str_replace(content, phone_number, replacement)
              /\ todo' = todo \ {phone_number}
              /\ last_call' = [fn |-> "replace", arg |-> phone_number,
                               keep |-> args.keep_area_code,
                               draws |-> draws_used(phone_number,
                                            args.keep_area_code, d1, d2),
                               result |-> replacement]
    /\ UNCHANGED <<args, env, files, pc, encoding, phone_numbers, exit_code,
                   opened, snapshot, runs>>

\* The path process_file writes to.
OutputPath == IF args.output_file = None THEN args.input_file
              ELSE args.output_file

\* process_file: open(output_file, "w"), f.write(content); main returns.
WriteOutput ==
    /\ pc = "loop"
    /\ todo = {}
    /\ pc' = "exit"
    /\ CASE env.write = "ok" ->
              /\ opened' = opened \cup {<<OutputPath, "w">>}
              /\ files' = [files EXCEPT ![OutputPath] = content]
              /\ exit_code' = 0
         [] env.write = "open_fails" ->
              /\ exit_code' = 1
              /\ UNCHANGED <<opened, files>>
         [] env.write = "write_fails" ->
              /\ opened' = opened \cup {<<OutputPath, "w">>}
              /\ \E k \in 0..Len(content) :
                    files' = [files EXCEPT ![OutputPath] = SubSeq(content, 1, k)]
              /\ exit_code' = 1
    /\ UNCHANGED <<args, env, encoding, content, phone_numbers, todo,
                   snapshot, runs, last_call>>

\* The tool is run again, in place, on the file the previous run wrote.
Rerun ==
    /\ pc = "exit"
    /\ exit_code = 0
    /\ runs < MaxRuns
    /\ args' = [args EXCEPT !.input_file = OutputPath, !.output_file = None]
    /\ snapshot' = files
    /\ runs' = runs + 1
    /\ pc' = "main"
    /\ encoding' = None
    /\ content' = <<>>
    /\ phone_numbers' = {}
    /\ todo' = {}
    /\ exit_code' = -1
    /\ opened' = {}
    /\ last_call' = NoCall
    /\ UNCHANGED <<env, files>>

Next ==
    \/ Main
    \/ CheckExists
    \/ DetectEncoding
    \/ ReadInput
    \/ FindNumbers
    \/ LoopMask
    \/ LoopReplace
    \/ WriteOutput
    \/ Rerun

Spec == Init /\ [][Next]_vars

\* ------------------------------------------------------------- properties
\* The text the current run read and the text it wrote.
Orig == snapshot[args.input_file]
Out == files[OutputPath]

\* A mask-mode run that has written its output.
MaskDone == pc = "exit" /\ exit_code = 0 /\ ~args.replace

\* s with every decimal digit replaced by the character c.
MaskedValue(s, c) == [j \in 1..Len(s) |-> IF s[j] \in Digits THEN c ELSE s[j]]

InSpan(i, s) == s[1] <= i /\ i < s[1] + s[2]

\* d3 [sep] d3 [sep] d4, each separator absent or a hyphen, dot or whitespace.
Is334(pn) ==
    \E a \in {0, 1}, b \in {0, 1} :
       /\ Len(pn) = 10 + a + b
       /\ \A j \in 1..Len(pn) :
             IF (a = 1 /\ j = 4) \/ (b = 1 /\ j = 7 + a)
             THEN pn[j] \in {"-", ".", " ", "\t", "\n"}
             ELSE pn[j] \in Digits

\* pn occurs in text at position i with no digit right before or after it.
OccursUnflanked(pn, text, i) ==
    /\ i + Len(pn) - 1 <= Len(text)
    /\ SubSeq(text, i, i + Len(pn) - 1) = pn
    /\ (i = 1 \/ text[i - 1] \notin Digits)
    /\ (i + Len(pn) > Len(text) \/ text[i + Len(pn)] \notin Digits)

\* All orders in which the elements of S can be iterated.
Orders(S) ==
    {f \in [1..Cardinality(S) -> S] :
        \A i, j \in 1..Cardinality(S) : f[i] = f[j] => i = j}

\* The mask-mode loop of process_file run over the candidates in a given order.
RECURSIVE MaskInOrder(_, _, _)
MaskInOrder(text, order, c) ==
    IF order = <<>> THEN text
    ELSE MaskInOrder(str_replace(text, Head(order), MaskedValue(Head(order), c)),
                     Tail(order), c)

\* C1: after a mask-mode run, every position where the Finder matched a
\* candidate in the original text holds that candidate's masked value.
C1_MaskedAtEveryMatch ==
    MaskDone =>
       \A s \in FindSpans(Orig, 1) :
          /\ s[1] + s[2] - 1 <= Len(Out)
          /\ SubSeq(Out, s[1], s[1] + s[2] - 1)
               = MaskedValue(SubSeq(Orig, s[1], s[1] + s[2] - 1), args.mask_char[1])

\* C2: with a non-digit mask character, the buffer written in mask mode
\* contains nothing the detection pattern matches.
C2_NoMatchLeft ==
    (MaskDone /\ args.mask_char[1] \notin Digits) => FindSpans(Out, 1) = {}

\* C3: a mask-mode run on the output of a previous mask-mode run leaves the
\* content unchanged.
C3_Idempotent ==
    (MaskDone /\ runs >= 2) => Out = Orig

\* C4: mask_phone_number returns a string of the same length, the mask
\* character where the candidate had a decimal digit and the original
\* character elsewhere.
C4_MaskShape ==
    last_call.fn = "mask" =>
       /\ Len(last_call.result) = Len(last_call.arg)
       /\ \A j \in 1..Len(last_call.arg) :
             last_call.result[j] = IF last_call.arg[j] \in Digits
                                   THEN args.mask_char[1]
                                   ELSE last_call.arg[j]

\* C4 witness: a candidate with digits and separators has been masked.
C4_Witness ==
    /\ last_call.fn = "mask"
    /\ \E j \in 1..Len(last_call.arg) : last_call.arg[j] \in Seps
    /\ \E j \in 1..Len(last_call.arg) : last_call.arg[j] \in Digits

\* C5: every string find_phone_numbers returns is a 3-3-4 digit group that
\* occurs in the text with no digit immediately before or after it.
C5_FinderBoundaries ==
    \A pn \in phone_numbers :
       /\ Is334(pn)
       /\ \E i \in 1..Len(Orig) : OccursUnflanked(pn, Orig, i)

\* C5 witness: a candidate was found in a text that also holds an unbroken
\* run of more than 10 digits.
C5_Witness ==
    /\ pc = "loop"
    /\ phone_numbers # {}
    /\ \E i \in 1..Len(Orig) : DigitsAt(Orig, i, 11)

\* C6 as stated: with keep_area_code, whatever the generator returns, the
\* result is the original area code, "-", 3 digits, "-", 4 digits.
AreaCodeKept(r, pn) ==
    /\ Len(r) = 12
    /\ SubSeq(r, 1, 3) = SubSeq(pn, 1, 3)
    /\ r[4] = "-" /\ r[8] = "-"
    /\ \A j \in {5, 6, 7, 9, 10, 11, 12} : r[j] \in Digits

KeepCall ==
    /\ last_call.fn = "replace"
    /\ last_call.keep
    /\ re_match(last_call.arg) # <<>>
    /\ \A k \in 1..Len(last_call.draws) : last_call.draws[k] # Raise

C6_Original ==
    KeepCall => AreaCodeKept(last_call.result, last_call.arg)

\* C6 amended: with keep_area_code, whenever the generated number itself
\* parses as 3-3-4 digits, the result is the original area code, "-",
\* 3 digits, "-", 4 digits.
C6_AreaCodeKeptWhenParsed ==
    (KeepCall /\ re_match(last_call.draws[1]) # <<>>)
       => AreaCodeKept(last_call.result, last_call.arg)

\* C6 witness: a parsable generated number with another area code was used.
C6_Witness ==
    /\ KeepCall
    /\ re_match(last_call.draws[1]) # <<>>
    /\ SubSeq(last_call.draws[1], 1, 3) # SubSeq(last_call.arg, 1, 3)

\* C7: a fatal error before the write step ends with exit code 1, the
\* output never opened for writing and the files unchanged; an invalid mask
\* character is rejected before any file is opened.
FatalBeforeWrite ==
    \/ Len(args.mask_char) # 1
    \/ snapshot[args.input_file] = NoFile
    \/ ~env.read_ok

C7_FatalLeavesFiles ==
    FatalBeforeWrite =>
       /\ pc \notin {"find", "loop"}
       /\ pc = "exit" => exit_code = 1
       /\ \A o \in opened : o[2] # "w"
       /\ files = snapshot
       /\ Len(args.mask_char) # 1 => opened = {}

\* C7 witness: a run with a valid mask and an existing input ended on a read
\* failure while an output file was already present.
C7_Witness ==
    /\ pc = "exit" /\ exit_code = 1
    /\ ~env.read_ok
    /\ Len(args.mask_char) = 1
    /\ snapshot[args.input_file] # NoFile
    /\ files["out"] # NoFile
    /\ <<args.input_file, "r">> \in opened

\* C8: when the generated number does not parse, replace_phone_number
\* returns that same generated number.
C8_FallbackIsSameNumber ==
    (KeepCall /\ re_match(last_call.draws[1]) = <<>>)
       => last_call.result = last_call.draws[1]

\* C9: mask mode changes only characters inside matched positions and keeps
\* the length of the text.
C9_OnlyMatchesChange ==
    MaskDone =>
       /\ Len(Out) = Len(Orig)
       /\ \A i \in 1..Len(Orig) :
             (\A s \in FindSpans(Orig, 1) : ~InSpan(i, s))
                => (i <= Len(Out) /\ Out[i] = Orig[i])

\* C10: in mask mode every iteration order of the candidates yields the
\* same final buffer.
C10_OrderIndependent ==
    MaskDone =>
       \A order \in Orders(find_phone_numbers(Orig)) :
          MaskInOrder(Orig, order, args.mask_char[1]) = Out
====
